---- MODULE Spec2Model ----
(***************************************************************************)
(* Model of the Connection registry, the Connection connect/close          *)
(* sequencing and the PrimaryColumn decorator of                           *)
(* src/sample/sample4-many-to-many/entity/PostCategory.ts.                 *)
(*                                                                         *)
(* Three specifications share the module, one per part of the source:      *)
(*   SpecRegistry   addEntityMetadatas / addEntityListenerMetadatas /      *)
(*                  addSubscribers / getRepository                         *)
(*   SpecConnect    connect() and close() with the driver's and the        *)
(*                  schema creator's asynchronous completions              *)
(*   SpecDecorator  PrimaryColumn(...) calls and the application of the    *)
(*                  returned decorator functions to properties             *)
(***************************************************************************)
EXTENDS Integers, Sequences, FiniteSets, TLC

\* ------------------------------------------------------------------------
\* Bounds
\* ------------------------------------------------------------------------

\* longest list handed to one add... call
MaxBatch == 2

\* longest entityMetadatas list the registry is driven to
MaxRegistered == 3

\* longest listener list and longest subscriber list
MaxObservers == 1

\* most connect() calls and most close() calls made on the connection
MaxConnectCalls == 2
MaxCloseCalls == 2

\* most PrimaryColumn(...) calls and most applications of the decorators they return
MaxDecorators == 2
MaxDeclarations == 3

VARIABLES
    \* Connection registry (lines 108-111)
    entityMetadatas,          \* this._entityMetadatas
    entityListenerMetadatas,  \* this._entityListenerMetadatas
    subscribers,              \* this._subscribers
    repositoryAndMetadatas,   \* this.repositoryAndMetadatas
    call,                     \* the last public method called, its argument, its outcome
    \* Connection connect/close (lines 187-202)
    autoSchemaCreate,         \* this._options.autoSchemaCreate
    connectCalls,             \* the connect() calls made, each with the state of its promise chain
    closeCalls,               \* the close() calls made, each with the state of its promise
    driverConnects,           \* how often this._driver.connect() was invoked
    driverDisconnects,        \* how often this._driver.disconnect() was invoked
    schemaCreates,            \* how often schemaCreator.create() was invoked
    lifecycle,                \* the lifecycle state of spec.md section 4.4 (history variable)
    \* PrimaryColumn (lines 41-80)
    optionsHeap,              \* the ColumnOptions objects of the caller, as they are now
    optionsWritten,           \* the same objects as the caller wrote them (history variable)
    decorators,               \* the functions returned by PrimaryColumn, with what they captured
    storage,                  \* the column metadatas of defaultMetadataStorage
    applied                   \* the last application of a decorator and its outcome

registryVars ==
    <<entityMetadatas, entityListenerMetadatas, subscribers, repositoryAndMetadatas, call>>

connectVars ==
    <<autoSchemaCreate, connectCalls, closeCalls, driverConnects, driverDisconnects,
      schemaCreates, lifecycle>>

decoratorVars == <<optionsHeap, optionsWritten, decorators, storage, applied>>

vars == <<registryVars, connectVars, decoratorVars>>

\* ------------------------------------------------------------------------
\* Values
\* ------------------------------------------------------------------------

\* entity classes (constructor functions, compared by identity)
Classes == {"Post", "Category", "PostCategory"}

\* EntityMetadata objects, compared by identity (id); m1 and m3 are two
\* different metadata objects of the same class
EntityMetadataObjects ==
    { [id |-> "m1", target |-> "Post"],
      [id |-> "m2", target |-> "Category"],
      [id |-> "m3", target |-> "Post"] }

EntityListenerObjects == {"listener1"}

SubscriberObjects == {"subscriber1"}

\* all sequences over S of length at most n
RECURSIVE SeqsUpTo(_, _)
SeqsUpTo(S, n) ==
    IF n = 0 THEN {<<>>}
    ELSE LET shorter == SeqsUpTo(S, n - 1)
         IN  shorter \cup {Append(s, x) : s \in {t \in shorter : Len(t) = n - 1}, x \in S}

\* Array.prototype.find, given for every element whether the callback accepts
\* it: the index of the first accepted element, or 0 for undefined
find(accepted) ==
    IF \E i \in 1..Len(accepted) : accepted[i]
    THEN CHOOSE i \in 1..Len(accepted) : accepted[i] /\ \A j \in 1..(i - 1) : ~accepted[j]
    ELSE 0

\* ------------------------------------------------------------------------
\* Connection: registry
\* ------------------------------------------------------------------------

\* new Repository(this, metadata): a new object (identity n) that keeps its metadata
Repository(metadata, n) == [id |-> n, metadata |-> metadata]

createRepoMeta(metadata, n) ==
    [metadata |-> metadata, repository |-> Repository(metadata, n)]

\* get repositories()
repositories ==
    [i \in 1..Len(repositoryAndMetadatas) |-> repositoryAndMetadatas[i].repository]

\* variant: the lookup does not compare the target with the class asked for
getEntityMetadataIgnoringTarget(entityClass) ==
    IF Len(entityMetadatas) = 0
    THEN [kind |-> "throw", error |-> "MetadataNotFoundError"]
    ELSE [kind |-> "return", value |-> entityMetadatas[1]]

getEntityMetadata(entityClass) ==
    LET i == find([k \in 1..Len(entityMetadatas) |-> entityMetadatas[k].target = entityClass])
    IN  IF i = 0
        THEN [kind |-> "throw", error |-> "MetadataNotFoundError"]
        ELSE [kind |-> "return", value |-> entityMetadatas[i]]

\* variant: the pair is looked up by its metadata's target, without getEntityMetadata
getRepositoryByPairTarget(entityClass) ==
    LET i == find([k \in 1..Len(repositoryAndMetadatas) |->
                      repositoryAndMetadatas[k].metadata.target = entityClass])
    IN  IF i = 0
        THEN [kind |-> "throw", error |-> "RepositoryNotFoundError"]
        ELSE [kind |-> "return", value |-> repositoryAndMetadatas[i].repository]

getRepository(entityClass) ==
    LET metadata == getEntityMetadata(entityClass)
    IN  IF metadata.kind = "throw" THEN metadata
        ELSE LET i == find([k \in 1..Len(repositoryAndMetadatas) |->
                               repositoryAndMetadatas[k].metadata = metadata.value])
             IN  IF i = 0
                 THEN [kind |-> "throw", error |-> "RepositoryNotFoundError"]
                 ELSE [kind |-> "return", value |-> repositoryAndMetadatas[i].repository]

\* variant: no second pair for a metadata that already has one
RECURSIVE newRepoMetasDeduplicating(_)
newRepoMetasDeduplicating(metadatas) ==
    IF metadatas = <<>> THEN <<>>
    ELSE LET front == SubSeq(metadatas, 1, Len(metadatas) - 1)
             last == metadatas[Len(metadatas)]
             pairs == newRepoMetasDeduplicating(front)
             known == \/ \E j \in 1..Len(repositoryAndMetadatas) :
                            repositoryAndMetadatas[j].metadata = last
                      \/ \E j \in 1..Len(pairs) : pairs[j].metadata = last
         IN  IF known THEN pairs
             ELSE Append(pairs, createRepoMeta(last, Len(repositoryAndMetadatas) + Len(pairs) + 1))

\* the pairs addEntityMetadatas appends; every Repository is a new object,
\* numbered by the count of repositories created before it
newRepoMetas(metadatas) ==
    [i \in 1..Len(metadatas) |-> createRepoMeta(metadatas[i], Len(repositoryAndMetadatas) + i)]

\* variant: the new metadatas are put in front of the registered ones
addEntityMetadatasPrepending ==
    \E metadatas \in SeqsUpTo(EntityMetadataObjects, MaxBatch) :
        /\ Len(entityMetadatas) + Len(metadatas) <= MaxRegistered
        /\ entityMetadatas' = metadatas \o entityMetadatas
        /\ repositoryAndMetadatas' = newRepoMetas(metadatas) \o repositoryAndMetadatas
        /\ call' = [op |-> "addEntityMetadatas", arg |-> metadatas]
        /\ UNCHANGED <<entityListenerMetadatas, subscribers>>
        /\ UNCHANGED <<connectVars, decoratorVars>>

addEntityMetadatas ==
    \E metadatas \in SeqsUpTo(EntityMetadataObjects, MaxBatch) :
        /\ Len(entityMetadatas) + Len(metadatas) <= MaxRegistered
        /\ entityMetadatas' = entityMetadatas \o metadatas
        /\ repositoryAndMetadatas' = repositoryAndMetadatas \o newRepoMetas(metadatas)
        /\ call' = [op |-> "addEntityMetadatas", arg |-> metadatas]
        /\ UNCHANGED <<entityListenerMetadatas, subscribers>>
        /\ UNCHANGED <<connectVars, decoratorVars>>

addEntityListenerMetadatas ==
    \E metadatas \in SeqsUpTo(EntityListenerObjects, MaxBatch) :
        /\ Len(entityListenerMetadatas) + Len(metadatas) <= MaxObservers
        /\ entityListenerMetadatas' = entityListenerMetadatas \o metadatas
        /\ call' = [op |-> "addEntityListenerMetadatas", arg |-> metadatas]
        /\ UNCHANGED <<entityMetadatas, subscribers, repositoryAndMetadatas>>
        /\ UNCHANGED <<connectVars, decoratorVars>>

addSubscribers ==
    \E subs \in SeqsUpTo(SubscriberObjects, MaxBatch) :
        /\ Len(subscribers) + Len(subs) <= MaxObservers
        /\ subscribers' = subscribers \o subs
        /\ call' = [op |-> "addSubscribers", arg |-> subs]
        /\ UNCHANGED <<entityMetadatas, entityListenerMetadatas, repositoryAndMetadatas>>
        /\ UNCHANGED <<connectVars, decoratorVars>>

\* a caller's getRepository(entityClass); the registry is only read
callGetRepository ==
    \E entityClass \in Classes :
        /\ call' = [op |-> "getRepository", arg |-> entityClass,
                    result |-> getRepository(entityClass)]
        /\ UNCHANGED <<entityMetadatas, entityListenerMetadatas, subscribers,
                       repositoryAndMetadatas>>
        /\ UNCHANGED <<connectVars, decoratorVars>>

InitRegistry ==
    /\ entityMetadatas = <<>>
    /\ entityListenerMetadatas = <<>>
    /\ subscribers = <<>>
    /\ repositoryAndMetadatas = <<>>
    /\ call = [op |-> "constructor"]

NextRegistry ==
    \/ addEntityMetadatas
    \/ addEntityListenerMetadatas
    \/ addSubscribers
    \/ callGetRepository



\* ------------------------------------------------------------------------
\* Connection: connect() and close()
\* ------------------------------------------------------------------------

\* values the caller may have given the option; "true" is the boolean true
OptionValues == {"true", "false", "undefined"}

\* the lifecycle state after event e, by the state machine
\* Created -> Connecting -> {Connected, Failed}; Connected -> Closed
LifecycleAfter(state, e) ==
    CASE state = "Created" /\ e = "connect" -> "Connecting"
      [] state = "Connecting" /\ e = "resolved" -> "Connected"
      [] state = "Connecting" /\ e = "rejected" -> "Failed"
      [] state = "Connected" /\ e = "closed" -> "Closed"
      [] OTHER -> state

\* connect(), up to the return of the promise: this._driver.connect() is
\* invoked and the callback is chained on its promise
connect ==
    /\ Len(connectCalls) < MaxConnectCalls
    /\ driverConnects' = driverConnects + 1
    /\ connectCalls' = Append(connectCalls,
           [pc |-> "awaitDriver", driver |-> "pending", create |-> "none",
            invokedIn |-> lifecycle])
    /\ lifecycle' = LifecycleAfter(lifecycle, "connect")
    /\ UNCHANGED <<autoSchemaCreate, closeCalls, driverDisconnects, schemaCreates>>
    /\ UNCHANGED <<registryVars, decoratorVars>>

\* the driver's connect promise of call k is fulfilled
driverConnectSucceeds ==
    \E k \in 1..Len(connectCalls) :
        /\ connectCalls[k].pc = "awaitDriver"
        /\ connectCalls' = [connectCalls EXCEPT ![k].driver = "ok", ![k].pc = "thenCallback"]
        /\ UNCHANGED <<autoSchemaCreate, closeCalls, driverConnects, driverDisconnects,
                       schemaCreates, lifecycle>>
        /\ UNCHANGED <<registryVars, decoratorVars>>

\* the driver's connect promise of call k is rejected: the callback is skipped
\* and the promise connect() returned is rejected
driverConnectFails ==
    \E k \in 1..Len(connectCalls) :
        /\ connectCalls[k].pc = "awaitDriver"
        /\ connectCalls' = [connectCalls EXCEPT ![k].driver = "failed", ![k].pc = "rejected"]
        /\ lifecycle' = LifecycleAfter(lifecycle, "rejected")
        /\ UNCHANGED <<autoSchemaCreate, closeCalls, driverConnects, driverDisconnects,
                       schemaCreates>>
        /\ UNCHANGED <<registryVars, decoratorVars>>

\* variant: the schema is created whatever the option says
thenCallbackAlwaysCreating ==
    \E k \in 1..Len(connectCalls) :
        /\ connectCalls[k].pc = "thenCallback"
        /\ schemaCreates' = schemaCreates + 1
        /\ connectCalls' = [connectCalls EXCEPT ![k].create = "pending", ![k].pc = "awaitCreate"]
        /\ lifecycle' = lifecycle
        /\ UNCHANGED <<autoSchemaCreate, closeCalls, driverConnects, driverDisconnects>>
        /\ UNCHANGED <<registryVars, decoratorVars>>

\* the callback given to then(): schemaCreator.create() if autoSchemaCreate
\* === true, else undefined, which fulfils the promise connect() returned
thenCallback ==
    \E k \in 1..Len(connectCalls) :
        /\ connectCalls[k].pc = "thenCallback"
        /\ IF autoSchemaCreate = "true"
           THEN /\ schemaCreates' = schemaCreates + 1
                /\ connectCalls' = [connectCalls EXCEPT ![k].create = "pending",
                                                        ![k].pc = "awaitCreate"]
                /\ lifecycle' = lifecycle
           ELSE /\ schemaCreates' = schemaCreates
                /\ connectCalls' = [connectCalls EXCEPT ![k].pc = "resolved"]
                /\ lifecycle' = LifecycleAfter(lifecycle, "resolved")
        /\ UNCHANGED <<autoSchemaCreate, closeCalls, driverConnects, driverDisconnects>>
        /\ UNCHANGED <<registryVars, decoratorVars>>

\* the promise of schemaCreator.create() of call k is fulfilled
schemaCreateSucceeds ==
    \E k \in 1..Len(connectCalls) :
        /\ connectCalls[k].pc = "awaitCreate"
        /\ connectCalls' = [connectCalls EXCEPT ![k].create = "ok", ![k].pc = "resolved"]
        /\ lifecycle' = LifecycleAfter(lifecycle, "resolved")
        /\ UNCHANGED <<autoSchemaCreate, closeCalls, driverConnects, driverDisconnects,
                       schemaCreates>>
        /\ UNCHANGED <<registryVars, decoratorVars>>

\* the promise of schemaCreator.create() of call k is rejected
schemaCreateFails ==
    \E k \in 1..Len(connectCalls) :
        /\ connectCalls[k].pc = "awaitCreate"
        /\ connectCalls' = [connectCalls EXCEPT ![k].create = "failed", ![k].pc = "rejected"]
        /\ lifecycle' = LifecycleAfter(lifecycle, "rejected")
        /\ UNCHANGED <<autoSchemaCreate, closeCalls, driverConnects, driverDisconnects,
                       schemaCreates>>
        /\ UNCHANGED <<registryVars, decoratorVars>>

\* variant: only a Connected connection is disconnected
closeGuarded ==
    /\ Len(closeCalls) < MaxCloseCalls
    /\ IF lifecycle = "Connected"
       THEN /\ driverDisconnects' = driverDisconnects + 1
            /\ closeCalls' = Append(closeCalls, [pc |-> "awaitDriver", invokedIn |-> lifecycle])
       ELSE /\ driverDisconnects' = driverDisconnects
            /\ closeCalls' = Append(closeCalls, [pc |-> "rejected", invokedIn |-> lifecycle])
    /\ UNCHANGED <<autoSchemaCreate, connectCalls, driverConnects, schemaCreates, lifecycle>>
    /\ UNCHANGED <<registryVars, decoratorVars>>

\* close(): the promise of this._driver.disconnect() is returned
close ==
    /\ Len(closeCalls) < MaxCloseCalls
    /\ driverDisconnects' = driverDisconnects + 1
    /\ closeCalls' = Append(closeCalls, [pc |-> "awaitDriver", invokedIn |-> lifecycle])
    /\ UNCHANGED <<autoSchemaCreate, connectCalls, driverConnects, schemaCreates, lifecycle>>
    /\ UNCHANGED <<registryVars, decoratorVars>>

driverDisconnectSucceeds ==
    \E k \in 1..Len(closeCalls) :
        /\ closeCalls[k].pc = "awaitDriver"
        /\ closeCalls' = [closeCalls EXCEPT ![k].pc = "resolved"]
        /\ lifecycle' = LifecycleAfter(lifecycle, "closed")
        /\ UNCHANGED <<autoSchemaCreate, connectCalls, driverConnects, driverDisconnects,
                       schemaCreates>>
        /\ UNCHANGED <<registryVars, decoratorVars>>

driverDisconnectFails ==
    \E k \in 1..Len(closeCalls) :
        /\ closeCalls[k].pc = "awaitDriver"
        /\ closeCalls' = [closeCalls EXCEPT ![k].pc = "rejected"]
        /\ UNCHANGED <<autoSchemaCreate, connectCalls, driverConnects, driverDisconnects,
                       schemaCreates, lifecycle>>
        /\ UNCHANGED <<registryVars, decoratorVars>>

\* the state after new Connection(name, driver, options)
InitConnect ==
    /\ autoSchemaCreate \in OptionValues
    /\ connectCalls = <<>>
    /\ closeCalls = <<>>
    /\ driverConnects = 0
    /\ driverDisconnects = 0
    /\ schemaCreates = 0
    /\ lifecycle = "Created"

NextConnect ==
    \/ connect
    \/ driverConnectSucceeds
    \/ driverConnectFails
    \/ thenCallback
    \/ schemaCreateSucceeds
    \/ schemaCreateFails
    \/ close
    \/ driverDisconnectSucceeds
    \/ driverDisconnectFails


\* ------------------------------------------------------------------------
\* PrimaryColumn
\* ------------------------------------------------------------------------

Undefined == "undefined"

\* the ColumnOptions objects the caller holds, by identity
OptionRefs == {"o1"}

\* what the caller may write in a ColumnOptions object
ColumnOptionsValues == [type : {Undefined, "int"}, nullable : {Undefined, "true"}]

\* the decorated properties: class, property name and the "design:type"
\* reflected for it (Object: an interface or any, for which nothing is inferred)
Members ==
    { [class |-> "PostCategory", propertyName |-> "id", designType |-> "Number"],
      [class |-> "Post", propertyName |-> "data", designType |-> "Object"] }

\* the values of PrimaryColumn's first argument: nothing, a type name, an options object
TypeOrOptionsArgs ==
    {[kind |-> "undefined"]} \cup {[kind |-> "string", value |-> "int"]}
        \cup {[kind |-> "object", ref |-> o] : o \in OptionRefs}

\* the values of PrimaryColumn's second argument: nothing, an options object
OptionsArgs == {[kind |-> "undefined"]} \cup {[kind |-> "object", ref |-> o] : o \in OptionRefs}

\* the argument lists the overloads of lines 27 and 34 accept
PrimaryColumnArgs ==
    {a \in [typeOrOptions : TypeOrOptionsArgs, options : OptionsArgs] :
        a.typeOrOptions.kind = "object" => a.options.kind = "undefined"}

\* ColumnTypes.determineTypeFromFunction
determineTypeFromFunction(designType) ==
    CASE designType = "Number" -> "float"
      [] designType = "String" -> "string"
      [] designType = "Date" -> "datetime"
      [] OTHER -> Undefined

\* ColumnTypes.typeToString
typeToString(designType) ==
    CASE designType = "Number" -> "number"
      [] designType = "String" -> "string"
      [] designType = "Date" -> "date"
      [] OTHER -> "object"

\* new ColumnMetadata({...}); options is the object it was given, not a copy
ColumnMetadata(target, propertyName, propertyType, isPrimaryKey, options) ==
    [target |-> target, propertyName |-> propertyName, propertyType |-> propertyType,
     isPrimaryKey |-> isPrimaryKey, options |-> options]

\* defaultMetadataStorage.addColumnMetadata
addColumnMetadata(columnMetadatas, metadata) == Append(columnMetadatas, metadata)

\* PrimaryColumn(typeOrOptions, options) up to its return: what the returned
\* function captures (the variables type and options)
PrimaryColumn(typeOrOptions, options) ==
    IF typeOrOptions.kind = "string"
    THEN [type |-> typeOrOptions.value, options |-> options]
    ELSE [type |-> Undefined, options |-> typeOrOptions]

\* variant: the nullable check is left out
decoratorWithoutNullableCheck(closure, heap, member) ==
    LET type == IF closure.type = Undefined
                THEN determineTypeFromFunction(member.designType)
                ELSE closure.type
        shared == closure.options.kind = "object"
        before == IF shared THEN heap[closure.options.ref]
                  ELSE [type |-> Undefined, nullable |-> Undefined]
        columnOptions == IF before.type = Undefined THEN [before EXCEPT !.type = type] ELSE before
        heapAfter == IF shared THEN [heap EXCEPT ![closure.options.ref] = columnOptions] ELSE heap
        outcome == IF columnOptions.type = Undefined THEN "ColumnTypeUndefinedError"
                   ELSE "registered"
    IN  [type |-> type, heap |-> heapAfter, outcome |-> outcome,
         columnType |-> columnOptions.type,
         metadata |-> ColumnMetadata(member.class, member.propertyName,
                                     typeToString(member.designType), TRUE,
                                     IF shared THEN [ref |-> closure.options.ref]
                                     ELSE [ref |-> "own", value |-> columnOptions])]

\* the function PrimaryColumn returns, applied to (object, propertyName) with
\* the captured variables in closure and the options objects in heap: the
\* captured type and the heap after it, its outcome, and the ColumnMetadata it
\* registers when it does not throw
decorator(closure, heap, member) ==
    LET \* lines 53-54: the guess is assigned to the captured variable
        type == IF closure.type = Undefined
                THEN determineTypeFromFunction(member.designType)
                ELSE closure.type
        \* line 57: the caller's object itself, or a new empty object
        shared == closure.options.kind = "object"
        before == IF shared THEN heap[closure.options.ref]
                  ELSE [type |-> Undefined, nullable |-> Undefined]
        \* lines 60-61: the type is written into that object
        columnOptions == IF before.type = Undefined THEN [before EXCEPT !.type = type] ELSE before
        heapAfter == IF shared THEN [heap EXCEPT ![closure.options.ref] = columnOptions] ELSE heap
        \* lines 64-69
        outcome == IF columnOptions.type = Undefined THEN "ColumnTypeUndefinedError"
                   ELSE IF columnOptions.nullable = "true"
                        THEN "PrimaryColumnCannotBeNullableError"
                        ELSE "registered"
    IN  [type |-> type, heap |-> heapAfter, outcome |-> outcome,
         columnType |-> columnOptions.type,
         metadata |-> ColumnMetadata(member.class, member.propertyName,
                                     typeToString(member.designType), TRUE,
                                     IF shared THEN [ref |-> closure.options.ref]
                                     ELSE [ref |-> "own", value |-> columnOptions])]

\* the options of a stored ColumnMetadata as they are now
OptionsOf(metadata) ==
    IF metadata.options.ref \in OptionRefs
    THEN optionsHeap[metadata.options.ref]
    ELSE metadata.options.value

\* a PrimaryColumn(...) call: the returned function is kept with its arguments
callPrimaryColumn ==
    \E args \in PrimaryColumnArgs :
        /\ Len(decorators) < MaxDecorators
        /\ decorators' = Append(decorators,
               [closure |-> PrimaryColumn(args.typeOrOptions, args.options), args |-> args])
        /\ UNCHANGED <<optionsHeap, optionsWritten, storage, applied>>
        /\ UNCHANGED <<registryVars, connectVars>>

\* a decorator function is applied to a property of a class
applyDecorator ==
    \E d \in 1..Len(decorators), member \in Members :
        LET r == decorator(decorators[d].closure, optionsHeap, member)
        IN  /\ applied.n < MaxDeclarations
            /\ decorators' = [decorators EXCEPT ![d].closure.type = r.type]
            /\ optionsHeap' = r.heap
            /\ storage' = IF r.outcome = "registered"
                          THEN addColumnMetadata(storage, r.metadata)
                          ELSE storage
            /\ applied' = [n |-> applied.n + 1, decorator |-> d, member |-> member,
                           outcome |-> r.outcome, columnType |-> r.columnType,
                           storedBefore |-> Len(storage)]
            /\ UNCHANGED optionsWritten
            /\ UNCHANGED <<registryVars, connectVars>>

NoMember == [class |-> "none", propertyName |-> "none", designType |-> "none"]

\* before any declaration: the caller's options objects as written, nothing stored
InitDecorator ==
    /\ optionsWritten \in [OptionRefs -> ColumnOptionsValues]
    /\ optionsHeap = optionsWritten
    /\ decorators = <<>>
    /\ storage = <<>>
    /\ applied = [n |-> 0, decorator |-> 0, member |-> NoMember, outcome |-> "none",
                  columnType |-> Undefined, storedBefore |-> 0]

\* ------------------------------------------------------------------------
\* Specifications
\* ------------------------------------------------------------------------

NextDecorator ==
    \/ callPrimaryColumn
    \/ applyDecorator

\* a new connection with nothing registered, and no declaration made
InitIdle ==
    /\ InitRegistry
    /\ InitConnect
    /\ autoSchemaCreate = "false"
    /\ InitDecorator
    /\ optionsWritten = [o \in OptionRefs |-> [type |-> Undefined, nullable |-> Undefined]]

\* the registry of one connection
InitSpecRegistry == InitIdle

SpecRegistry == InitSpecRegistry /\ [][NextRegistry]_vars

\* connect() and close() on one connection, for every value of the option
InitSpecConnect ==
    /\ InitRegistry
    /\ InitConnect
    /\ InitDecorator
    /\ optionsWritten = [o \in OptionRefs |-> [type |-> Undefined, nullable |-> Undefined]]

SpecConnect == InitSpecConnect /\ [][NextConnect]_vars

\* primary column declarations, for every content of the caller's options objects
InitSpecDecorator ==
    /\ InitRegistry
    /\ InitConnect
    /\ autoSchemaCreate = "false"
    /\ InitDecorator

SpecDecorator == InitSpecDecorator /\ [][NextDecorator]_vars


\* ------------------------------------------------------------------------
\* Properties of connect() and close() (checked under SpecConnect)
\* ------------------------------------------------------------------------

\* C4: in every connect() call the driver's connect is invoked first; create()
\* is invoked only after the driver's connect succeeded and only when
\* autoSchemaCreate is set; the returned promise is resolved only after the
\* driver's connect succeeded and, when autoSchemaCreate is set, create()
\* succeeded as well; after a failed step the promise is not resolved, and
\* after a failed driver connect create() is never invoked.
C4_ConnectSequencing ==
    /\ \A k \in 1..Len(connectCalls) :
           LET c == connectCalls[k]
           IN  /\ c.driver # "none"
               /\ c.create # "none" => c.driver = "ok" /\ autoSchemaCreate = "true"
               /\ c.pc = "resolved"
                      => /\ c.driver = "ok"
                         /\ autoSchemaCreate = "true" => c.create = "ok"
                         /\ autoSchemaCreate # "true" => c.create = "none"
               /\ c.driver = "failed" => c.pc = "rejected" /\ c.create = "none"
               /\ c.create = "failed" => c.pc = "rejected"
               /\ c.driver = "pending" => c.pc = "awaitDriver"
               /\ c.create = "pending" => c.pc = "awaitCreate"
    /\ driverConnects >= Len(connectCalls)
    /\ schemaCreates = Cardinality({k \in 1..Len(connectCalls) : connectCalls[k].create # "none"})

\* C4 witness: with autoSchemaCreate set, one connect() resolved after create()
\* succeeded and another was rejected by a failed driver connect.
C4_Witness ==
    /\ autoSchemaCreate = "true"
    /\ \E j, k \in 1..Len(connectCalls) :
           /\ connectCalls[j].pc = "resolved"
           /\ connectCalls[j].create = "ok"
           /\ connectCalls[k].pc = "rejected"
           /\ connectCalls[k].driver = "failed"

\* C7 as stated: the driver's connect is invoked only while the connection is
\* Created, and the driver's disconnect only while it is Connected.
C7_DriverCalledOnlyInLifecycle ==
    /\ \A k \in 1..Len(connectCalls) :
           connectCalls[k].driver # "none" => connectCalls[k].invokedIn = "Created"
    /\ \A k \in 1..Len(closeCalls) :
           closeCalls[k].pc = "awaitDriver" => closeCalls[k].invokedIn = "Connected"
    /\ driverConnects <= 1

\* C7 amended: the connection guards nothing: every connect() call invokes the
\* driver's connect once and every close() call invokes the driver's
\* disconnect once, in whatever lifecycle state the call is made.
C7_EveryCallReachesDriver ==
    /\ driverConnects = Len(connectCalls)
    /\ driverDisconnects = Len(closeCalls)
    /\ \A k \in 1..Len(connectCalls) : connectCalls[k].driver # "none"

\* C7 witness: connect() was called on a connection that was not Created, and
\* close() on one that was Closed and on one that was never connected or had
\* failed; each call reached the driver.
C7_Witness ==
    /\ driverConnects = 2
    /\ driverDisconnects = 2
    /\ \E k \in 1..Len(connectCalls) : connectCalls[k].invokedIn # "Created"
    /\ \E k \in 1..Len(closeCalls) : closeCalls[k].invokedIn \in {"Created", "Failed", "Closed"}

\* ------------------------------------------------------------------------
\* Properties of PrimaryColumn (checked under SpecDecorator)
\* ------------------------------------------------------------------------

NoOptions == [type |-> Undefined, nullable |-> Undefined]

\* the options object the caller handed to PrimaryColumn, in either argument
\* position, as the caller wrote it
WrittenOptions(args) ==
    IF args.typeOrOptions.kind = "object" THEN optionsWritten[args.typeOrOptions.ref]
    ELSE IF args.options.kind = "object" THEN optionsWritten[args.options.ref]
    ELSE NoOptions

\* the caller gave a type: as the type argument or in the options it wrote
ExplicitType(args) ==
    \/ args.typeOrOptions.kind = "string"
    \/ WrittenOptions(args).type # Undefined

\* the arguments of the PrimaryColumn call whose decorator was applied last
AppliedArgs == decorators[applied.decorator].args

\* what a declaration does when nothing was declared before it: the decorator
\* of a new PrimaryColumn call applied with the options objects as written
Isolated(args, member) ==
    decorator(PrimaryColumn(args.typeOrOptions, args.options), optionsWritten, member)

\* C5 as stated: a primary column declaration whose options mark it nullable
\* fails with PrimaryColumnCannotBeNullableError, whatever its types are.
C5_NullablePrimaryFails ==
    (applied.n > 0 /\ WrittenOptions(AppliedArgs).nullable = "true")
        => applied.outcome = "PrimaryColumnCannotBeNullableError"

\* C6 as stated: a primary column declaration with no explicit type and an
\* undetermined inferred type fails with ColumnTypeUndefinedError, after any
\* earlier declarations.
C6_UntypedUndeterminedFails ==
    ( /\ applied.n > 0
      /\ ~ExplicitType(AppliedArgs)
      /\ determineTypeFromFunction(applied.member.designType) = Undefined )
        => applied.outcome = "ColumnTypeUndefinedError"

\* C8: every stored primary ColumnMetadata is not nullable and has a defined
\* type; a declaration that failed added no entry to the storage, and one that
\* succeeded added exactly one entry, for its own class and property.
C8_StoredPrimaryColumnsValid ==
    /\ \A i \in 1..Len(storage) :
           storage[i].isPrimaryKey
               => /\ OptionsOf(storage[i]).nullable # "true"
                  /\ OptionsOf(storage[i]).type # Undefined
    /\ applied.outcome \in {"ColumnTypeUndefinedError", "PrimaryColumnCannotBeNullableError"}
           => Len(storage) = applied.storedBefore
    /\ applied.outcome = "registered"
           => /\ Len(storage) = applied.storedBefore + 1
              /\ storage[Len(storage)].target = applied.member.class
              /\ storage[Len(storage)].propertyName = applied.member.propertyName
              /\ storage[Len(storage)].isPrimaryKey

\* C8 witness: after a declaration that was stored, a declaration with
\* nullable options failed with PrimaryColumnCannotBeNullableError.
C8_Witness ==
    /\ applied.outcome = "PrimaryColumnCannotBeNullableError"
    /\ applied.storedBefore >= 1
    /\ Len(storage) >= 1

\* C10 as stated: the outcome of a declaration (the error raised, or the
\* column type recorded) is the one its own type argument, its options as
\* written and the property's reflected type give, whatever was declared
\* before.
C10_OutcomeIndependentOfHistory ==
    applied.n > 0
        => /\ applied.outcome = Isolated(AppliedArgs, applied.member).outcome
           /\ applied.outcome = "registered"
                  => applied.columnType = Isolated(AppliedArgs, applied.member).columnType

\* ------------------------------------------------------------------------
\* Properties of the registry (checked under SpecRegistry)
\* ------------------------------------------------------------------------

\* the classes that are the target of some registered metadata
RegisteredClasses == {entityMetadatas[i].target : i \in 1..Len(entityMetadatas)}

\* the indices of the pairs that refer to metadata m
PairsOf(m) == {j \in 1..Len(repositoryAndMetadatas) : repositoryAndMetadatas[j].metadata = m}

\* the indices at which metadata m is registered
RegistrationsOf(m) == {i \in 1..Len(entityMetadatas) : entityMetadatas[i] = m}

\* C1: for every class C that is the target of a registered metadata,
\* getRepository(C) returns a repository (it does not throw), and the metadata
\* paired with that repository has target C.
C1_RegisteredClassHasRepository ==
    \A C \in RegisteredClasses :
        LET r == getRepository(C)
        IN  /\ r.kind = "return"
            /\ \E j \in 1..Len(repositoryAndMetadatas) :
                   repositoryAndMetadatas[j].repository = r.value
            /\ \A j \in 1..Len(repositoryAndMetadatas) :
                   repositoryAndMetadatas[j].repository = r.value
                       => repositoryAndMetadatas[j].metadata.target = C

\* C1 witness: two metadata objects of class Post and one of Category are
\* registered, listeners and subscribers were added, and getRepository(Post)
\* has returned the repository of the first registered Post metadata.
C1_Witness ==
    /\ Len(entityMetadatas) = 3
    /\ \E i, k \in 1..3 : /\ i < k
                          /\ entityMetadatas[i].target = "Post"
                          /\ entityMetadatas[k].target = "Post"
                          /\ entityMetadatas[i] # entityMetadatas[k]
    /\ "Category" \in RegisteredClasses
    /\ Len(entityListenerMetadatas) > 0
    /\ Len(subscribers) > 0
    /\ call.op = "getRepository"
    /\ call.arg = "Post"
    /\ call.result.kind = "return"

\* C2 as stated: for every class that is the target of no registered
\* metadata, getRepository fails with RepositoryNotFoundError.
C2_UnregisteredFailsRepositoryNotFound ==
    \A C \in Classes \ RegisteredClasses :
        getRepository(C) = [kind |-> "throw", error |-> "RepositoryNotFoundError"]

\* C2 amended: for every class that is the target of no registered metadata,
\* getRepository fails with MetadataNotFoundError, the error of the
\* getEntityMetadata lookup it starts with.
C2_UnregisteredFailsMetadataNotFound ==
    \A C \in Classes \ RegisteredClasses :
        getRepository(C) = [kind |-> "throw", error |-> "MetadataNotFoundError"]

\* C2 witness: some classes are registered, and getRepository was called for a
\* class that is not and threw.
C2_Witness ==
    /\ Len(entityMetadatas) >= 2
    /\ call.op = "getRepository"
    /\ call.arg \notin RegisteredClasses
    /\ call.result.kind = "throw"

\* C3 as stated: every registered EntityMetadata is referred to by exactly one
\* (repository, metadata) pair, whatever lists were registered.
C3_ExactlyOnePairPerMetadata ==
    \A i \in 1..Len(entityMetadatas) : Cardinality(PairsOf(entityMetadatas[i])) = 1

\* C3 amended: every registered EntityMetadata is referred to by as many pairs
\* as the number of times it was registered (at least one, and exactly one for
\* a metadata registered once), and no two pairs share a repository.
C3_OnePairPerRegistration ==
    /\ \A m \in EntityMetadataObjects :
           Cardinality(PairsOf(m)) = Cardinality(RegistrationsOf(m))
    /\ \A i \in 1..Len(entityMetadatas) : Cardinality(PairsOf(entityMetadatas[i])) >= 1
    /\ \A j, k \in 1..Len(repositoryAndMetadatas) :
           j # k => repositoryAndMetadatas[j].repository # repositoryAndMetadatas[k].repository

\* C3 witness: one metadata registered twice (two pairs) next to one
\* registered once (one pair).
C3_Witness ==
    \E m, n \in EntityMetadataObjects :
        /\ Cardinality(RegistrationsOf(m)) = 2
        /\ Cardinality(PairsOf(m)) = 2
        /\ Cardinality(RegistrationsOf(n)) = 1
        /\ Cardinality(PairsOf(n)) = 1

IsPrefix(s, t) == Len(s) <= Len(t) /\ SubSeq(t, 1, Len(s)) = s

\* C9: in every step the entityMetadatas list and the repositories list keep
\* equal lengths, the i-th repository is the one created for the i-th
\* metadata, both lists keep what they held as a prefix, addEntityMetadatas
\* appends exactly its list in order, and addEntityListenerMetadatas and
\* addSubscribers change neither list.
C9_ListsInInsertionOrder ==
    [][ /\ Len(repositories') = Len(entityMetadatas')
        /\ \A i \in 1..Len(entityMetadatas') :
               /\ repositories'[i].metadata = entityMetadatas'[i]
               /\ repositoryAndMetadatas'[i].metadata = entityMetadatas'[i]
        /\ IsPrefix(entityMetadatas, entityMetadatas')
        /\ IsPrefix(repositories, repositories')
        /\ call'.op = "addEntityMetadatas"
               => /\ entityMetadatas' = entityMetadatas \o call'.arg
                  /\ Len(repositories') = Len(repositories) + Len(call'.arg)
        /\ call'.op \in {"addEntityListenerMetadatas", "addSubscribers"}
               => /\ entityMetadatas' = entityMetadatas
                  /\ repositories' = repositories
      ]_vars

\* C9 witness: a list of two metadatas was appended after one registered
\* before, with listeners and subscribers registered as well.
C9_Witness ==
    /\ call.op = "addEntityMetadatas"
    /\ Len(call.arg) = 2
    /\ call.arg[1] # call.arg[2]
    /\ Len(entityMetadatas) = 3
    /\ entityMetadatas[1] # call.arg[1]
    /\ Len(entityListenerMetadatas) > 0
    /\ Len(subscribers) > 0

====
